---- MODULE Spec2Model ----
(***************************************************************************)
(* Download finalization and interrupt classification                     *)
(* (content/browser/download/base_file_win.cc).                            *)
(*                                                                         *)
(* The state is one BaseFile object, the file system it works on and the  *)
(* record of the last call made on the object: the raw result of the OS    *)
(* primitive, the returned DownloadInterruptReason, and the diagnostics    *)
(* the call emitted.                                                       *)
(***************************************************************************)
EXTENDS Integers, Sequences, FiniteSets, TLC

(***************************************************************************)
(* Bounds of the model.                                                    *)
(***************************************************************************)
\* result codes 0 .. MaxSmallCode are all tried; the range covers the
\* contiguous part of the SHFileOperation table (0x71 .. 0x88) and 0xB7
MaxSmallCode == 184
\* GPS readings lie on a grid 0 .. MaxGrid in latitude and in longitude, one
\* step being 0.0001 degree (11.112 m): neighbours are within the movement
\* threshold, points two steps apart are beyond it
MaxGrid == 2
\* the message loop holds at most MaxTasks poll tasks, revoked ones included
MaxTasks == 3

(***************************************************************************)
(* Values.                                                                 *)
(***************************************************************************)
NONE == "NONE"
FILE_FAILED == "FILE_FAILED"
FILE_ACCESS_DENIED == "FILE_ACCESS_DENIED"
FILE_NO_SPACE == "FILE_NO_SPACE"
FILE_NAME_TOO_LONG == "FILE_NAME_TOO_LONG"
FILE_TOO_LARGE == "FILE_TOO_LARGE"
FILE_VIRUS_INFECTED == "FILE_VIRUS_INFECTED"
FILE_TRANSIENT_ERROR == "FILE_TRANSIENT_ERROR"
FILE_BLOCKED == "FILE_BLOCKED"
FILE_SECURITY_CHECK_FAILED == "FILE_SECURITY_CHECK_FAILED"

\* the closed enumeration DownloadInterruptReason, file-related part
InterruptReason ==
  { NONE, FILE_FAILED, FILE_ACCESS_DENIED, FILE_NO_SPACE, FILE_NAME_TOO_LONG,
    FILE_TOO_LARGE, FILE_VIRUS_INFECTED, FILE_TRANSIENT_ERROR, FILE_BLOCKED,
    FILE_SECURITY_CHECK_FAILED }

\* what a call leaves behind when it did not return (a failed DCHECK ends
\* the process) and before any call was made
NoReturn == "NoReturn"
NoCall == "NoCall"

\* HRESULT is a signed 32-bit integer
\* 0x800c000e
INET_E_SECURITY_PROBLEM == -2146697202
\* 0x80004005
E_FAIL == -2147467259

SUCCEEDED(hr) == hr >= 0
FAILED(hr) == hr < 0

\* the statuses ScanAndSaveDownloadedFile is made to return: S_OK, S_FALSE,
\* the largest success value, the two known policy codes, E_ACCESSDENIED
\* (0x80070005), E_NOTIMPL (0x80004001), 0xFFFFFFFF and 0x80000000
HResults ==
  { 0, 1, 2147483647, INET_E_SECURITY_PROBLEM, E_FAIL, -2147024891,
    -2147467263, -1, (-2147483647) - 1 }

\* the codes SHFileOperation is made to return: the small codes, the large
\* table entries and their neighbours, and the ends of the int range
ShCodes ==
  (0 .. MaxSmallCode) \cup
  { 206, 1026, 1027, 65536, 65652, 65653, -1, 2147483647, (-2147483647) - 1 }

\* the codes SHFileOperation is made to return to MoveFileAndAdjustPermissions:
\* success, the contiguous part of the table with the gaps in it (0x77, 0x7B,
\* 0x7F), the other table entries, Windows error codes the translator knows
\* (2, 3, 5, 112, 206) and the ends of the int range
MoveCodes ==
  { c \in ShCodes :
      \/ c \in 113 .. 136
      \/ c \in { 0, 2, 3, 5, 112, 183, 206, 1026, 65536, 65652, 65653, -1,
                  2147483647, (-2147483647) - 1 } }

Paths == { "tmp.crdownload", "final.bin" }
Urls == { "http://host/file.bin" }

(***************************************************************************)
(* The generic OS-error translator: net::MapSystemError followed by        *)
(* ConvertNetErrorToInterruptReason with origin DOWNLOAD_INTERRUPT_FROM_DISK*)
(***************************************************************************)
MapSystemError(os_error) ==
  CASE os_error = 0 -> "OK"
    [] os_error \in {2, 3} -> "ERR_FILE_NOT_FOUND"
    [] os_error = 5 -> "ERR_ACCESS_DENIED"
    [] os_error \in {39, 112} -> "ERR_FILE_NO_SPACE"
    [] os_error \in {80, 183} -> "ERR_FILE_EXISTS"
    [] os_error = 206 -> "ERR_FILE_PATH_TOO_LONG"
    [] os_error = 4 -> "ERR_INSUFFICIENT_RESOURCES"
    [] OTHER -> "ERR_FAILED"

ConvertNetErrorToInterruptReason(net_error) ==
  CASE net_error = "OK" -> NONE
    [] net_error = "ERR_FILE_NOT_FOUND" -> FILE_ACCESS_DENIED
    [] net_error = "ERR_ACCESS_DENIED" -> FILE_ACCESS_DENIED
    [] net_error = "ERR_FILE_NO_SPACE" -> FILE_NO_SPACE
    [] net_error = "ERR_FILE_PATH_TOO_LONG" -> FILE_NAME_TOO_LONG
    [] net_error = "ERR_INSUFFICIENT_RESOURCES" -> FILE_TRANSIENT_ERROR
    [] OTHER -> FILE_FAILED

(***************************************************************************)
(* MapShFileOperationCodes: the switch over the pre-Win32 codes, then the  *)
(* standard Windows error codes.                                           *)
(***************************************************************************)
\* the switch without the DE_ERROR_MAX case
MapShFileOperationCodes_NoErrorMax(code) ==
  CASE code \in { 120, 130, 131, 132, 134, 135, 136 } -> FILE_ACCESS_DENIED
    [] code \in { 121, 129 } -> FILE_NAME_TOO_LONG
    [] code = 133 -> FILE_TOO_LARGE
    [] code \in { 113, 114, 115, 116, 117, 118, 122, 124, 125, 126, 128,
                  1026, 65536, 65652 } -> FILE_FAILED
    [] OTHER -> ConvertNetErrorToInterruptReason(MapSystemError(code))

\* the switch with the net error handed back unconverted
MapShFileOperationCodes_Unconverted(code) ==
  CASE code = 183 -> FILE_NAME_TOO_LONG
    [] code \in { 113, 114, 115, 116, 117, 118, 120, 121, 122, 124, 125, 126,
                  128, 129, 130, 131, 132, 133, 134, 135, 136,
                  1026, 65536, 65652 } -> MapShFileOperationCodes_NoErrorMax(code)
    [] OTHER -> MapSystemError(code)

\* DE_FILEDESTISFLD taken for an access problem
MapShFileOperationCodes_DestIsFolderDenied(code) ==
  CASE code = 128 -> FILE_ACCESS_DENIED
    [] code = 183 -> FILE_NAME_TOO_LONG
    [] OTHER -> MapShFileOperationCodes_NoErrorMax(code)

\* DE_PATHTOODEEP taken for a generic failure
MapShFileOperationCodes_PathTooDeepFailed(code) ==
  CASE code = 121 -> FILE_FAILED
    [] code = 183 -> FILE_NAME_TOO_LONG
    [] OTHER -> MapShFileOperationCodes_NoErrorMax(code)

\* DE_SRC_IS_CDRECORD taken for a generic failure
MapShFileOperationCodes_SrcCdRecordFailed(code) ==
  CASE code = 136 -> FILE_FAILED
    [] code = 183 -> FILE_NAME_TOO_LONG
    [] OTHER -> MapShFileOperationCodes_NoErrorMax(code)

\* the case label of DE_FILE_TOO_LARGE is off by one
MapShFileOperationCodes_TooLargeOffByOne(code) ==
  CASE code = 133 -> FILE_ACCESS_DENIED
    [] code = 134 -> FILE_TOO_LARGE
    [] code = 183 -> FILE_NAME_TOO_LONG
    [] OTHER -> MapShFileOperationCodes_NoErrorMax(code)

MapShFileOperationCodes(code) ==
  CASE code = 113 -> FILE_FAILED             \* DE_SAMEFILE 0x71
    [] code = 117 -> FILE_FAILED             \* DE_OPCANCELLED 0x75
    [] code = 120 -> FILE_ACCESS_DENIED      \* DE_ACCESSDENIEDSRC 0x78
    [] code = 121 -> FILE_NAME_TOO_LONG      \* DE_PATHTOODEEP 0x79
    [] code = 124 -> FILE_FAILED             \* DE_INVALIDFILES 0x7C
    [] code = 126 -> FILE_FAILED             \* DE_FLDDESTISFILE 0x7E
    [] code = 128 -> FILE_FAILED             \* DE_FILEDESTISFLD 0x80
    [] code = 129 -> FILE_NAME_TOO_LONG      \* DE_FILENAMETOOLONG 0x81
    [] code = 130 -> FILE_ACCESS_DENIED      \* DE_DEST_IS_CDROM 0x82
    [] code = 131 -> FILE_ACCESS_DENIED      \* DE_DEST_IS_DVD 0x83
    [] code = 132 -> FILE_ACCESS_DENIED      \* DE_DEST_IS_CDRECORD 0x84
    [] code = 133 -> FILE_TOO_LARGE          \* DE_FILE_TOO_LARGE 0x85
    [] code = 134 -> FILE_ACCESS_DENIED      \* DE_SRC_IS_CDROM 0x86
    [] code = 135 -> FILE_ACCESS_DENIED      \* DE_SRC_IS_DVD 0x87
    [] code = 136 -> FILE_ACCESS_DENIED      \* DE_SRC_IS_CDRECORD 0x88
    [] code = 183 -> FILE_NAME_TOO_LONG      \* DE_ERROR_MAX 0xB7
    [] code = 65536 -> FILE_FAILED           \* XE_ERRORONDEST 0x10000
    [] code = 114 -> FILE_FAILED             \* DE_MANYSRC1DEST 0x72
    [] code = 115 -> FILE_FAILED             \* DE_DIFFDIR 0x73
    [] code = 116 -> FILE_FAILED             \* DE_ROOTDIR 0x74
    [] code = 118 -> FILE_FAILED             \* DE_DESTSUBTREE 0x76
    [] code = 122 -> FILE_FAILED             \* DE_MANYDEST 0x7A
    [] code = 125 -> FILE_FAILED             \* DE_DESTSAMETREE 0x7D
    [] code = 1026 -> FILE_FAILED            \* DE_UNKNOWN_ERROR 0x402
    [] code = 65652 -> FILE_FAILED           \* DE_ROOTDIR | ERRORONDEST 0x10074
    [] OTHER -> ConvertNetErrorToInterruptReason(MapSystemError(code))

(***************************************************************************)
(* MapScanAndSaveErrorCodeToInterruptReason                                *)
(***************************************************************************)
\* the switch with E_FAIL left to the default case
MapScanAndSave_NoVirusCase(result) ==
  IF SUCCEEDED(result) THEN NONE
  ELSE CASE result = INET_E_SECURITY_PROBLEM -> FILE_BLOCKED
         [] OTHER -> FILE_SECURITY_CHECK_FAILED

\* the switch with a default case that blames the download
MapScanAndSave_DefaultFileFailed(result) ==
  IF SUCCEEDED(result) THEN NONE
  ELSE CASE result = INET_E_SECURITY_PROBLEM -> FILE_BLOCKED
         [] result = E_FAIL -> FILE_VIRUS_INFECTED
         [] OTHER -> FILE_FAILED

MapScanAndSaveErrorCodeToInterruptReason(result) ==
  IF SUCCEEDED(result) THEN NONE
  ELSE CASE result = INET_E_SECURITY_PROBLEM -> FILE_BLOCKED
         [] result = E_FAIL -> FILE_VIRUS_INFECTED
         [] OTHER -> FILE_SECURITY_CHECK_FAILED

(***************************************************************************)
(* BaseFile::LogInterruptReason records the entry and hands the reason     *)
(* back.                                                                   *)
(***************************************************************************)
LogEntry(operation, os_error, reason) ==
  [operation |-> operation, os_error |-> os_error, reason |-> reason]

LogInterruptReason(operation, os_error, reason) == reason

(***************************************************************************)
(* State.                                                                  *)
(***************************************************************************)
VARIABLES
  full_path_,     \* BaseFile::full_path_
  source_url_,    \* BaseFile::source_url_
  detached_,      \* BaseFile::detached_
  files,          \* the paths that exist in the file system
  dcheck_is_on,   \* whether the build compiles DCHECKs in
  logger_fails,   \* whether the diagnostic log sink fails to record entries
  crashed,        \* a DCHECK failed and ended the process
  dcheck_failed,  \* the condition of a DCHECK was false in the last call
  last_op,        \* the last method called on the object
  op_path,        \* the path that call handed to the OS primitive
  op_target,      \* new_path of the last MoveFileAndAdjustPermissions
  attempt,        \* how far the finalize attempt of the caller has come
  op_code,        \* the raw result of the OS primitive in that call
  op_aborted,     \* move_info.fAnyOperationsAborted after SHFileOperation
  op_checked,     \* the path that call asked file_util::PathExists about
  op_exists,      \* what file_util::PathExists answered in that call
  ret,            \* the DownloadInterruptReason that call returned
  log,            \* the entries that call handed to LogInterruptReason
  counters,       \* the download counts that call recorded
  scan_calls,     \* how often that call invoked ScanAndSaveDownloadedFile
  cls_code,       \* argument of a direct use of MapShFileOperationCodes
  cls_reason      \* its result

VARIABLES
  gps_,           \* gps_: "NULL", or the state of the LibGps it owns:
                  \* "unstarted" (Start failed), "started", "stopped"
  position_,      \* GpsLocationProviderLinux::position_
  live_tasks,     \* delays of the pending poll tasks task_factory_ has not revoked
  revoked_tasks,  \* number of pending poll tasks task_factory_ has revoked
  gps_last,       \* the last handler of the provider that ran
  poll_on,        \* the state of gps_ when that handler called gps_->Poll()
  poll_ok,        \* what gps_->Poll() returned in that handler
  poll_new,       \* new_position of that handler
  notified,       \* whether that handler called UpdateListeners
  got,            \* the position that handler handed out
  gps_dcheck_failed, \* the condition of a DCHECK was false in that handler
  gps_crashed     \* the process ended in a handler of the provider

provider == << gps_, position_, live_tasks, revoked_tasks >>
gps_call == << gps_last, poll_on, poll_ok, poll_new, notified, got,
               gps_dcheck_failed >>
gps == << provider, gps_call, gps_crashed >>

fields == << full_path_, source_url_, detached_ >>
call == << last_op, op_path, op_target, attempt, op_code, op_aborted,
           op_checked, op_exists, ret, log, counters, scan_calls,
           dcheck_failed >>
classifier == << cls_code, cls_reason >>
build == << dcheck_is_on, logger_fails >>
vars == << fields, files, build, crashed, call, classifier, gps >>

(***************************************************************************)
(* Values of the GPS location provider                                     *)
(* (chrome/browser/geolocation/gps_location_provider_linux.cc).            *)
(***************************************************************************)
kPollPeriodMovingMillis == 500
kPollPeriodStationaryMillis == kPollPeriodMovingMillis * 3
kMovementThresholdMeters == 20

ERROR_CODE_NONE == "ERROR_CODE_NONE"
ERROR_CODE_POSITION_UNAVAILABLE == "ERROR_CODE_POSITION_UNAVAILABLE"

\* Geoposition: whether latitude, longitude and accuracy are those of a fix,
\* the coordinates, whether the timestamp is set, and the error code
Geoposition(fix, latitude, longitude, timestamp, error_code) ==
  [fix |-> fix, latitude |-> latitude, longitude |-> longitude,
   timestamp |-> timestamp, error_code |-> error_code]

\* a default-constructed Geoposition
DefaultGeoposition == Geoposition(FALSE, 0, 0, FALSE, ERROR_CODE_NONE)

IsValidFix(position) == position.fix /\ position.timestamp

IsInitialized(position) ==
  position.error_code # ERROR_CODE_NONE \/ position.timestamp

\* what LibGps::GetPosition writes: a fix, no fix yet, or an error
LibGpsPositions ==
  { Geoposition(TRUE, lat, lon, TRUE, ERROR_CODE_NONE) :
      lat \in 0 .. MaxGrid, lon \in 0 .. MaxGrid }
  \cup { Geoposition(FALSE, 0, 0, TRUE, ERROR_CODE_NONE),
         Geoposition(FALSE, 0, 0, FALSE, ERROR_CODE_POSITION_UNAVAILABLE) }

Abs(x) == IF x < 0 THEN -x ELSE x

\* lines 31-47.  delta is in degrees and 60 * 1852 metres a degree; with the
\* coordinates in steps of 0.0001 degree a step is 11.112 m = 2778 / 250 m,
\* so delta > kMovementThresholdMeters is compared in squares:
\* steps^2 * 2778^2 > (kMovementThresholdMeters * 250)^2
PositionsDifferSiginificantly(position_1, position_2) ==
  LET pos_1_valid == IsValidFix(position_1) IN
    IF pos_1_valid # IsValidFix(position_2) THEN TRUE
    ELSE IF ~pos_1_valid THEN FALSE
    ELSE LET dlat == Abs(position_1.latitude - position_2.latitude)
             dlon == Abs(position_1.longitude - position_2.longitude)
         IN (dlat * dlat + dlon * dlon) * 2778 * 2778
              > (kMovementThresholdMeters * 250) * (kMovementThresholdMeters * 250)

InitProvider ==
  /\ gps_ = "NULL"
  /\ position_ = DefaultGeoposition
  /\ live_tasks = << >>
  /\ revoked_tasks = 0
  /\ gps_last = "constructed"
  /\ poll_on = "none"
  /\ poll_ok = FALSE
  /\ poll_new = DefaultGeoposition
  /\ notified = FALSE
  /\ got = DefaultGeoposition
  /\ gps_dcheck_failed = FALSE
  /\ gps_crashed = FALSE

Pending == "Pending"

InitObject ==
  /\ full_path_ \in Paths
  /\ source_url_ \in Urls
  /\ detached_ = FALSE
  /\ files = { full_path_ }
  /\ dcheck_is_on \in BOOLEAN
  /\ logger_fails \in BOOLEAN
  /\ crashed = FALSE
  /\ dcheck_failed = FALSE
  /\ last_op = NoCall
  /\ op_path = full_path_
  /\ op_target = full_path_
  /\ attempt = "none"
  /\ op_code = 0
  /\ op_aborted = FALSE
  /\ op_checked = full_path_
  /\ op_exists = TRUE
  /\ ret = NoCall
  /\ log = << >>
  /\ counters = << >>
  /\ scan_calls = 0

Init ==
  /\ InitObject
  /\ InitProvider
  /\ cls_code = 0
  /\ cls_reason = Pending

(***************************************************************************)
(* BaseFile::MoveFileAndAdjustPermissions(new_path)                        *)
(***************************************************************************)
\* the aborted flag is not looked at
MoveInterruptReason_IgnoresAborted(result, aborted) ==
  IF result # 0 THEN MapShFileOperationCodes(result) ELSE NONE

\* the aborted flag decides whatever the result code is
MoveInterruptReason_AbortedFirst(result, aborted) ==
  IF aborted THEN FILE_FAILED
  ELSE IF result # 0 THEN MapShFileOperationCodes(result)
  ELSE NONE

\* lines 200-205: the reason derived from the result of SHFileOperation
MoveInterruptReason(result, aborted) ==
  IF result = 0 /\ aborted THEN FILE_FAILED
  ELSE IF result # 0 THEN MapShFileOperationCodes(result)
  ELSE NONE

\* lines 207-209: the entries logged on the way out
MoveLog(result, reason) ==
  IF reason # NONE THEN << LogEntry("SHFileOperation", result, reason) >>
  ELSE << >>

\* a failing log sink turns the outcome into success
MoveReturn_LoggerDecides(result, reason) ==
  IF reason # NONE
    THEN IF logger_fails THEN NONE
         ELSE LogInterruptReason("SHFileOperation", result, reason)
    ELSE reason

\* lines 207-209: the value returned
MoveReturn(result, reason) ==
  IF reason # NONE THEN LogInterruptReason("SHFileOperation", result, reason)
  ELSE reason

\* SHFileOperation(FO_MOVE): the file is at the target exactly when the
\* primitive reports success and no aborted operation
FilesAfterMove(fs, source, target, result, aborted) ==
  IF result = 0 /\ ~aborted THEN (fs \ { source }) \cup { target } ELSE fs

\* the object takes the new path as its own inside the move
FullPathAfterMove_Adopts(full_path, new_path, reason) ==
  IF reason = NONE THEN new_path ELSE full_path

\* lines 181-210: full_path_ is read (line 186) and not assigned
FullPathAfterMove(full_path, new_path, reason) == full_path

MoveFileAndAdjustPermissions(new_path, result, aborted) ==
  /\ ~crashed
  /\ (result = 0 /\ ~aborted) => (full_path_ \in files /\ new_path # full_path_)
  /\ files' = FilesAfterMove(files, full_path_, new_path, result, aborted)
  /\ last_op' = "MoveFileAndAdjustPermissions"
  /\ op_path' = full_path_
  /\ op_target' = new_path
  /\ op_code' = result
  /\ op_aborted' = aborted
  /\ op_checked' = full_path_
  /\ op_exists' = (full_path_ \in files')
  /\ LET interrupt_reason == MoveInterruptReason(result, aborted) IN
       /\ ret' = MoveReturn(result, interrupt_reason)
       /\ log' = MoveLog(result, interrupt_reason)
  /\ attempt' = IF ret' = NONE THEN "relocated" ELSE "failed"
  /\ full_path_' = FullPathAfterMove(full_path_, new_path, ret')
  /\ counters' = << >>
  /\ scan_calls' = 0
  /\ dcheck_failed' = FALSE
  /\ UNCHANGED << source_url_, detached_, build, crashed, classifier, gps >>

(***************************************************************************)
(* BaseFile::Rename, the caller of MoveFileAndAdjustPermissions: once the  *)
(* move returned NONE the object takes the new path as its own.            *)
(***************************************************************************)
Rename_AdoptPath ==
  /\ ~crashed
  /\ last_op = "MoveFileAndAdjustPermissions"
  /\ ret = NONE
  /\ full_path_ # op_target
  /\ full_path_' = op_target
  /\ UNCHANGED << source_url_, detached_, files, build, crashed, call,
                  classifier, gps >>

(***************************************************************************)
(* BaseFile::AnnotateWithSourceInformation()                               *)
(***************************************************************************)
\* line 232: DCHECK(FAILED(hr)) is reached with a successful hr
AnnotateDCheckFails(hr, exists) == ~exists /\ ~FAILED(hr)

\* the status is classified without the existence check
AnnotateResult_IgnoresExistence(hr, exists) ==
  MapScanAndSaveErrorCodeToInterruptReason(hr)

\* the existence test is inverted
AnnotateResult_Inverted(hr, exists) ==
  IF exists
    THEN LET result == MapScanAndSaveErrorCodeToInterruptReason(hr) IN
           IF result = NONE THEN FILE_SECURITY_CHECK_FAILED ELSE result
    ELSE NONE

\* a successful status is trusted as it is
AnnotateResult_TrustsSuccess(hr, exists) ==
  IF SUCCEEDED(hr) \/ exists THEN NONE
  ELSE MapScanAndSaveErrorCodeToInterruptReason(hr)

\* the missing file is classified by the status alone
AnnotateResult_NoFixup(hr, exists) ==
  IF ~exists THEN MapScanAndSaveErrorCodeToInterruptReason(hr) ELSE NONE

\* lines 217, 231-237: the reason derived from the status and the existence
AnnotateResult(hr, exists) ==
  IF ~exists
    THEN LET result == MapScanAndSaveErrorCodeToInterruptReason(hr) IN
           IF result = NONE THEN FILE_SECURITY_CHECK_FAILED ELSE result
    ELSE NONE

\* the count is recorded whenever the file is missing
AnnotateCounters_WheneverMissing(hr, exists) ==
  IF ~exists
    THEN << "FILE_MISSING_AFTER_SUCCESSFUL_SCAN_COUNT" >>
    ELSE << >>

\* lines 234-235: the download counts recorded
AnnotateCounters(hr, exists) ==
  IF ~exists /\ MapScanAndSaveErrorCodeToInterruptReason(hr) = NONE
    THEN << "FILE_MISSING_AFTER_SUCCESSFUL_SCAN_COUNT" >>
    ELSE << >>

\* the entry is written before the reason is fixed up
AnnotateLog_BeforeFixup(hr, exists) ==
  IF ~exists
    THEN << LogEntry("ScanAndSaveDownloadedFile", hr,
                     MapScanAndSaveErrorCodeToInterruptReason(hr)) >>
    ELSE << >>

\* line 238: the entries logged
AnnotateLog(hr, exists) ==
  IF ~exists
    THEN << LogEntry("ScanAndSaveDownloadedFile", hr, AnnotateResult(hr, exists)) >>
    ELSE << >>

\* the inspection is tried a second time after a failure
AnnotateScanCalls_RetryOnFailure(hr) == IF FAILED(hr) THEN 2 ELSE 1

\* line 218: the calls of ScanAndSaveDownloadedFile made by one call
AnnotateScanCalls(hr) == 1

\* a blocked file is put back where it came from
FilesAfterScan_Rollback(fs, path, deleted) ==
  IF deleted THEN (fs \ { path }) \cup (Paths \ { path }) ELSE fs

\* ScanAndSaveDownloadedFile: Attachment Execution Services may delete the
\* submitted file
FilesAfterScan(fs, path, deleted) ==
  IF deleted THEN fs \ { path } ELSE fs

\* line 218: the path handed to ScanAndSaveDownloadedFile
AnnotateScannedPath(full_path) == full_path

\* the path the file had before the move is the one looked for
AnnotateCheckedPath_Stale(full_path) == op_path

\* line 231: the path handed to file_util::PathExists
AnnotateCheckedPath(full_path) == full_path

\* the file is looked for before the inspection is called
AnnotatePathExists_BeforeScan(fs_before, fs_after, path) == path \in fs_before

\* line 231 comes after line 218: PathExists sees the file system as the
\* inspection call left it
AnnotatePathExists(fs_before, fs_after, path) == path \in fs_after

AnnotateWithSourceInformation(hr, deleted) ==
  /\ ~crashed
  /\ ~detached_
  /\ files' = FilesAfterScan(files, AnnotateScannedPath(full_path_), deleted)
  /\ last_op' = "AnnotateWithSourceInformation"
  /\ op_path' = AnnotateScannedPath(full_path_)
  /\ op_checked' = AnnotateCheckedPath(full_path_)
  /\ op_code' = hr
  /\ op_aborted' = FALSE
  /\ scan_calls' = AnnotateScanCalls(hr)
  /\ attempt' = IF attempt = "relocated" /\ full_path_ = op_target
                  THEN "annotated" ELSE "none"
  /\ LET exists == AnnotatePathExists(files, files',
                                      AnnotateCheckedPath(full_path_)) IN
       /\ op_exists' = exists
       /\ dcheck_failed' = AnnotateDCheckFails(hr, exists)
       /\ IF dcheck_is_on /\ AnnotateDCheckFails(hr, exists)
            THEN /\ crashed' = TRUE
                 /\ ret' = NoReturn
                 /\ log' = << >>
                 /\ counters' = << >>
            ELSE /\ crashed' = FALSE
                 /\ ret' = AnnotateResult(hr, exists)
                 /\ log' = AnnotateLog(hr, exists)
                 /\ counters' = AnnotateCounters(hr, exists)
  /\ UNCHANGED << fields, build, op_target, classifier, gps >>

Next ==
  \/ \E new_path \in Paths, result \in MoveCodes, aborted \in BOOLEAN :
       MoveFileAndAdjustPermissions(new_path, result, aborted)
  \/ Rename_AdoptPath
  \/ \E hr \in HResults, deleted \in BOOLEAN :
       AnnotateWithSourceInformation(hr, deleted)

Spec == Init /\ [][Next]_vars

(***************************************************************************)
(* The classifier on its own: MapShFileOperationCodes applied to a code.   *)
(***************************************************************************)
InitClassify ==
  /\ InitObject
  /\ InitProvider
  /\ cls_code \in ShCodes
  /\ cls_reason = Pending

ClassifyRelocationCode ==
  /\ cls_reason = Pending
  /\ cls_reason' = MapShFileOperationCodes(cls_code)
  /\ UNCHANGED << fields, files, build, crashed, call, cls_code, gps >>

NextClassify == ClassifyRelocationCode

SpecClassify == InitClassify /\ [][NextClassify]_vars

(***************************************************************************)
(* Handlers of GpsLocationProviderLinux.                                   *)
(***************************************************************************)
\* the tasks already posted stay valid
RevokeAll_Nothing(live, revoked) == [live |-> live, revoked |-> revoked]

\* line 109: task_factory_.RevokeAll() leaves the posted tasks in the message
\* loop but none of them will call DoGpsPollTask
RevokeAll(live, revoked) == [live |-> << >>, revoked |-> revoked + Len(live)]

\* lines 108-114: ScheduleNextGpsPoll(interval)
ScheduleNextGpsPoll(live, revoked, interval) ==
  LET r == RevokeAll(live, revoked) IN
    [live |-> Append(r.live, interval), revoked |-> r.revoked]

PendingTasks(live, revoked) == Len(live) + revoked

\* the poll periods are swapped
PollInterval_Swapped(differ) ==
  IF differ THEN kPollPeriodStationaryMillis ELSE kPollPeriodMovingMillis

\* lines 99-100
PollInterval(differ) ==
  IF differ THEN kPollPeriodMovingMillis ELSE kPollPeriodStationaryMillis

\* only a movement is worth an update
PollUpdates_MovementOnly(differ, new_position) == differ

\* line 101
PollUpdates(differ, new_position) ==
  differ \/ new_position.error_code # ERROR_CODE_NONE

\* line 60
StartPosition(position) ==
  [position EXCEPT !.error_code = ERROR_CODE_POSITION_UNAVAILABLE]

\* lines 59-74: StartProvider(); libgps_factory_ hands back an object or NULL
\* and LibGps::Start succeeds or not
StartProvider(loaded, started) ==
  /\ ~gps_crashed
  /\ (loaded /\ started) => PendingTasks(live_tasks, revoked_tasks) < MaxTasks
  /\ position_' = StartPosition(position_)
  /\ gps_' = IF ~loaded THEN "NULL" ELSE IF started THEN "started" ELSE "unstarted"
  /\ LET s == IF loaded /\ started
                THEN ScheduleNextGpsPoll(live_tasks, revoked_tasks, 0)
                ELSE [live |-> live_tasks, revoked |-> revoked_tasks] IN
       /\ live_tasks' = s.live
       /\ revoked_tasks' = s.revoked
  /\ gps_last' = "StartProvider"
  /\ notified' = FALSE
  /\ poll_on' = "none"
  /\ poll_ok' = FALSE
  /\ poll_new' = DefaultGeoposition
  /\ got' = DefaultGeoposition
  /\ gps_dcheck_failed' = FALSE
  /\ UNCHANGED gps_crashed
  /\ UNCHANGED << fields, files, build, crashed, call, classifier >>

\* lines 82-84: UpdatePosition()
UpdatePosition ==
  /\ ~gps_crashed
  /\ PendingTasks(live_tasks, revoked_tasks) < MaxTasks
  /\ LET s == ScheduleNextGpsPoll(live_tasks, revoked_tasks, 0) IN
       /\ live_tasks' = s.live
       /\ revoked_tasks' = s.revoked
  /\ gps_last' = "UpdatePosition"
  /\ notified' = FALSE
  /\ poll_on' = "none"
  /\ poll_ok' = FALSE
  /\ poll_new' = DefaultGeoposition
  /\ got' = DefaultGeoposition
  /\ gps_dcheck_failed' = FALSE
  /\ UNCHANGED << gps_, position_, gps_crashed >>
  /\ UNCHANGED << fields, files, build, crashed, call, classifier >>

\* the message loop takes a revoked task: DoGpsPollTask is not called
RunRevokedTask ==
  /\ ~gps_crashed
  /\ revoked_tasks > 0
  /\ revoked_tasks' = revoked_tasks - 1
  /\ gps_last' = "RevokedTask"
  /\ notified' = FALSE
  /\ poll_on' = "none"
  /\ poll_ok' = FALSE
  /\ poll_new' = DefaultGeoposition
  /\ got' = DefaultGeoposition
  /\ gps_dcheck_failed' = FALSE
  /\ UNCHANGED << gps_, position_, live_tasks, gps_crashed >>
  /\ UNCHANGED << fields, files, build, crashed, call, classifier >>

Remove(seq, i) ==
  [j \in 1 .. Len(seq) - 1 |-> IF j < i THEN seq[j] ELSE seq[j + 1]]

\* lines 90-106: the message loop runs the i-th valid task, DoGpsPollTask();
\* ok is what gps_->Poll() returns and new_position what GetPosition writes.
\* With gps_ NULL the call gps_->Poll() dereferences a null scoped_ptr, which
\* ends the process (assert in scoped_ptr, or the access fault).
DoGpsPollTask(i, ok, new_position) ==
  /\ ~gps_crashed
  /\ i \in 1 .. Len(live_tasks)
  /\ gps_last' = "DoGpsPollTask"
  /\ poll_on' = gps_
  /\ IF gps_ = "NULL"
       THEN /\ gps_crashed' = TRUE
            /\ poll_ok' = FALSE
            /\ poll_new' = DefaultGeoposition
            /\ notified' = FALSE
            /\ live_tasks' = Remove(live_tasks, i)
            /\ UNCHANGED << gps_, position_, revoked_tasks >>
       ELSE IF ~ok
       THEN /\ gps_' = "stopped"
            /\ poll_ok' = FALSE
            /\ poll_new' = DefaultGeoposition
            /\ notified' = FALSE
            /\ live_tasks' = Remove(live_tasks, i)
            /\ UNCHANGED << position_, revoked_tasks, gps_crashed >>
       ELSE LET differ == PositionsDifferSiginificantly(position_, new_position)
                s == ScheduleNextGpsPoll(Remove(live_tasks, i), revoked_tasks,
                                         PollInterval(differ))
            IN /\ poll_ok' = TRUE
               /\ poll_new' = new_position
               /\ live_tasks' = s.live
               /\ revoked_tasks' = s.revoked
               /\ position_' = IF PollUpdates(differ, new_position)
                                  THEN new_position ELSE position_
               /\ notified' = PollUpdates(differ, new_position)
               /\ UNCHANGED << gps_, gps_crashed >>
  /\ got' = DefaultGeoposition
  /\ gps_dcheck_failed' = FALSE
  /\ UNCHANGED << fields, files, build, crashed, call, classifier >>

\* lines 76-80: GetPosition(position); DCHECK(position->IsInitialized())
GetPosition ==
  /\ ~gps_crashed
  /\ got' = position_
  /\ gps_last' = "GetPosition"
  /\ notified' = FALSE
  /\ gps_dcheck_failed' = ~IsInitialized(position_)
  /\ gps_crashed' = (dcheck_is_on /\ ~IsInitialized(position_))
  /\ poll_on' = "none"
  /\ poll_ok' = FALSE
  /\ poll_new' = DefaultGeoposition
  /\ UNCHANGED provider
  /\ UNCHANGED << fields, files, build, crashed, call, classifier >>

NextGps ==
  \/ \E loaded \in BOOLEAN, started \in BOOLEAN : StartProvider(loaded, started)
  \/ UpdatePosition
  \/ RunRevokedTask
  \/ \E i \in 1 .. Len(live_tasks), ok \in BOOLEAN,
       new_position \in LibGpsPositions :
       DoGpsPollTask(i, ok, new_position)
  \/ GetPosition

InitGps ==
  /\ Init
  /\ full_path_ = "tmp.crdownload"
  /\ ~logger_fails

SpecGps == InitGps /\ [][NextGps]_vars

(***************************************************************************)
(* Properties.                                                             *)
(***************************************************************************)
Annotated == last_op = "AnnotateWithSourceInformation"
Relocated == last_op = "MoveFileAndAdjustPermissions"
Classified == cls_reason # Pending

\* the SHFileOperation table as the specification lists it: generic failures,
\* path-length overflows, access denials, oversized file
LegacyFailedCodes ==
  { 113, 117, 124, 126, 128, 114, 122, 115, 116, 118, 125, 1026, 65536, 65652 }
LegacyTooLongCodes == { 121, 129, 183 }
LegacyDeniedCodes == { 120, 130, 131, 132, 134, 135, 136 }
LegacyTooLargeCodes == { 133 }
LegacyCodes ==
  LegacyFailedCodes \cup LegacyTooLongCodes \cup LegacyDeniedCodes
    \cup LegacyTooLargeCodes
LegacyReason(code) ==
  CASE code \in LegacyFailedCodes -> FILE_FAILED
    [] code \in LegacyTooLongCodes -> FILE_NAME_TOO_LONG
    [] code \in LegacyDeniedCodes -> FILE_ACCESS_DENIED
    [] code \in LegacyTooLargeCodes -> FILE_TOO_LARGE
Translated(code) == ConvertNetErrorToInterruptReason(MapSystemError(code))

\* C1 (leniency): whenever the inspection status is a failure and the file
\* still exists after the inspection call, AnnotateWithSourceInformation
\* returns NONE.
C1_Leniency ==
  (Annotated /\ FAILED(op_code) /\ op_exists) => ret = NONE

C1_Witness ==
  Annotated /\ op_code = E_FAIL /\ op_exists /\ ret = NONE

\* C2 (destruction): whenever the inspection status is a failure and the file
\* does not exist after the inspection call, the call returns a reason and
\* that reason is not NONE.
C2_Destruction ==
  (Annotated /\ FAILED(op_code) /\ ~op_exists)
    => (ret \in InterruptReason /\ ret # NONE)

C2_Witness ==
  Annotated /\ op_code = -1 /\ ~op_exists /\ ret = FILE_SECURITY_CHECK_FAILED

\* C3 as stated: whenever the inspection status is a success,
\* AnnotateWithSourceInformation returns NONE, whether or not the file exists
\* afterwards.
C3_SuccessAlwaysNone ==
  (Annotated /\ SUCCEEDED(op_code)) => ret = NONE

\* C3 as amended: with a successful inspection status the call returns NONE
\* when the file still exists afterwards; when the file is missing afterwards
\* DCHECK(FAILED(hr)) is violated and a build without DCHECKs returns
\* FILE_SECURITY_CHECK_FAILED and records
\* FILE_MISSING_AFTER_SUCCESSFUL_SCAN_COUNT; NONE is not returned.
C3_SuccessNoneIfExists ==
  (Annotated /\ SUCCEEDED(op_code)) =>
    /\ op_exists => (ret = NONE /\ ~dcheck_failed)
    /\ ~op_exists =>
         /\ dcheck_failed
         /\ dcheck_is_on => ret = NoReturn
         /\ ~dcheck_is_on =>
              /\ ret = FILE_SECURITY_CHECK_FAILED
              /\ counters = << "FILE_MISSING_AFTER_SUCCESSFUL_SCAN_COUNT" >>

C3_Witness ==
  /\ Annotated /\ op_code = 1 /\ ~op_exists
  /\ ret = FILE_SECURITY_CHECK_FAILED

C5_PolicyCodes ==
  (Annotated /\ ~op_exists) =>
    /\ op_code = INET_E_SECURITY_PROBLEM => ret = FILE_BLOCKED
    /\ op_code = E_FAIL => ret = FILE_VIRUS_INFECTED

C5_Witness ==
  Annotated /\ ~op_exists /\ op_code = E_FAIL /\ ret = FILE_VIRUS_INFECTED

\* C6: with the file missing after the inspection call and a failure status
\* other than INET_E_SECURITY_PROBLEM and E_FAIL, the call returns
\* FILE_SECURITY_CHECK_FAILED.
C6_OtherFailures ==
  ( /\ Annotated /\ ~op_exists /\ FAILED(op_code)
    /\ op_code \notin { INET_E_SECURITY_PROBLEM, E_FAIL } )
    => ret = FILE_SECURITY_CHECK_FAILED

C6_Witness ==
  /\ Annotated /\ ~op_exists /\ op_code = -2147024891
  /\ ret = FILE_SECURITY_CHECK_FAILED

\* C7 (totality): for every code, MapShFileOperationCodes yields a member of
\* the DownloadInterruptReason enumeration, which is the table's reason or
\* the value of the generic OS-error translator.
C7_Totality ==
  Classified =>
    /\ cls_reason \in InterruptReason
    /\ \/ cls_code \in LegacyCodes /\ cls_reason = LegacyReason(cls_code)
       \/ cls_reason = Translated(cls_code)

C7_Witness ==
  Classified /\ cls_code = (-2147483647) - 1 /\ cls_reason = FILE_FAILED

\* C8 (legacy precedence): a code of the SHFileOperation table yields the
\* table's reason even where the generic translator answers differently
\* (0xB7 is ERROR_ALREADY_EXISTS for the translator); the translator decides
\* exactly the codes absent from the table.
C8_LegacyPrecedence ==
  Classified =>
    /\ cls_code \in LegacyCodes => cls_reason = LegacyReason(cls_code)
    /\ cls_code \notin LegacyCodes => cls_reason = Translated(cls_code)

C8_Witness ==
  /\ Classified /\ cls_code = 183 /\ cls_reason = FILE_NAME_TOO_LONG
  /\ Translated(183) # FILE_NAME_TOO_LONG

\* C9: when SHFileOperation returns 0 and sets fAnyOperationsAborted,
\* MoveFileAndAdjustPermissions returns FILE_FAILED.
C9_AbortedIsFailure ==
  (Relocated /\ op_code = 0 /\ op_aborted) => ret = FILE_FAILED

C9_Witness ==
  Relocated /\ op_code = 0 /\ op_aborted /\ ret = FILE_FAILED

\* C10: in every case other than result 0 with the aborted flag set, the
\* reason returned by MoveFileAndAdjustPermissions is
\* MapShFileOperationCodes of the raw result, for result 0 too and whatever
\* the aborted flag is when the result is not 0.
C10_OtherwiseClassified ==
  (Relocated /\ ~(op_code = 0 /\ op_aborted))
    => ret = MapShFileOperationCodes(op_code)

C10_Witness ==
  /\ Relocated /\ op_code = 121 /\ op_aborted
  /\ ret = FILE_NAME_TOO_LONG

C12_GenericCodesFailed ==
  ( /\ Classified
    /\ cls_code \in { 113, 117, 124, 126, 128, 114, 122, 115, 116, 118, 125,
                      1026, 65536, 65652 } )
    => cls_reason = FILE_FAILED

C12_Witness ==
  Classified /\ cls_code = 128 /\ cls_reason = FILE_FAILED

\* C13: MapShFileOperationCodes maps the path-length codes 0x79, 0x81 and
\* 0xB7 to FILE_NAME_TOO_LONG.
C13_PathLengthCodes ==
  (Classified /\ cls_code \in { 121, 129, 183 })
    => cls_reason = FILE_NAME_TOO_LONG

C13_Witness ==
  Classified /\ cls_code = 121 /\ cls_reason = FILE_NAME_TOO_LONG

\* C14: MapShFileOperationCodes maps 0x78 and the read-only and removable
\* media codes 0x82, 0x83, 0x84 (destination) and 0x86, 0x87, 0x88 (source)
\* to FILE_ACCESS_DENIED.
C14_AccessCodes ==
  (Classified /\ cls_code \in { 120, 130, 131, 132, 134, 135, 136 })
    => cls_reason = FILE_ACCESS_DENIED

C14_Witness ==
  Classified /\ cls_code = 136 /\ cls_reason = FILE_ACCESS_DENIED

\* C15: MapShFileOperationCodes maps 0x85 to FILE_TOO_LARGE and no other
\* code of the table to FILE_TOO_LARGE.
C15_TooLargeCode ==
  Classified =>
    /\ cls_code = 133 => cls_reason = FILE_TOO_LARGE
    /\ cls_code \in LegacyCodes \ { 133 } => cls_reason # FILE_TOO_LARGE

C15_Witness ==
  Classified /\ cls_code = 133 /\ cls_reason = FILE_TOO_LARGE

\* C16: MoveFileAndAdjustPermissions and AnnotateWithSourceInformation hand
\* one entry to LogInterruptReason exactly when the reason they return is not
\* NONE; the entry carries the operation name, the raw result code and the
\* returned reason; with NONE returned there is no entry.
C16_LogIffInterrupted ==
  /\ Relocated =>
       log = IF ret \in InterruptReason \ { NONE }
               THEN << LogEntry("SHFileOperation", op_code, ret) >>
               ELSE << >>
  /\ Annotated =>
       log = IF ret \in InterruptReason \ { NONE }
               THEN << LogEntry("ScanAndSaveDownloadedFile", op_code, ret) >>
               ELSE << >>

C16_Witness ==
  /\ Annotated /\ SUCCEEDED(op_code)
  /\ log = << LogEntry("ScanAndSaveDownloadedFile", op_code,
                        FILE_SECURITY_CHECK_FAILED) >>

C18_CountOnLenientPath ==
  Annotated =>
    (counters # << >> <=> (FAILED(op_code) /\ op_exists /\ ret = NONE))

\* C18 as amended: AnnotateWithSourceInformation records
\* FILE_MISSING_AFTER_SUCCESSFUL_SCAN_COUNT exactly when it returns with the
\* file missing after a successful inspection status, where the reason is
\* FILE_SECURITY_CHECK_FAILED; it records no count on any other path, the
\* lenient path included.
C18_CountOnMissingAfterSuccess ==
  Annotated =>
    /\ counters \in { << >>, << "FILE_MISSING_AFTER_SUCCESSFUL_SCAN_COUNT" >> }
    /\ counters # << >> <=>
         /\ ret \in InterruptReason
         /\ ~op_exists
         /\ SUCCEEDED(op_code)
    /\ counters # << >> => ret = FILE_SECURITY_CHECK_FAILED

C18_Witness ==
  /\ Annotated /\ op_code = 0 /\ ~op_exists
  /\ counters = << "FILE_MISSING_AFTER_SUCCESSFUL_SCAN_COUNT" >>

C20_ArtifactRemains ==
  (attempt = "annotated" /\ ret \in InterruptReason) => full_path_ \in files

\* C20 as amended: AnnotateWithSourceInformation does not undo the move: it
\* creates no file at any path, and when it returns the file is at its
\* destination path exactly if the returned reason is NONE; with any other
\* reason the file is gone.
C20_NoRollback ==
  [][ ( /\ last_op' = "AnnotateWithSourceInformation"
        /\ attempt' = "annotated"
        /\ ret' \in InterruptReason )
      => ( /\ files' \subseteq files
           /\ full_path_' = full_path_
           /\ ret' = NONE <=> full_path_' \in files' ) ]_vars

C20_Witness ==
  /\ attempt = "annotated" /\ full_path_ = op_target
  /\ ret = FILE_VIRUS_INFECTED /\ files = { }

\* C22: MoveFileAndAdjustPermissions and AnnotateWithSourceInformation leave
\* every field of the object (full_path_, source_url_, detached_) as it was:
\* a step that makes a call changes no field.
C22_CallsKeepFields ==
  [][ call' # call =>
        /\ full_path_' = full_path_
        /\ source_url_' = source_url_
        /\ detached_' = detached_ ]_vars

C22_Witness ==
  /\ Relocated /\ ret = NONE /\ op_code = 0 /\ ~op_aborted
  /\ op_target # op_path /\ full_path_ = op_path

\* C23: MoveFileAndAdjustPermissions and AnnotateWithSourceInformation end
\* by returning a reason and violate no assertion inside them; DCHECK(FAILED(hr))
\* holds whenever the file is missing after the inspection call.
C23_NoAssertionViolated ==
  (Relocated \/ Annotated) =>
    /\ ret \in InterruptReason
    /\ ~dcheck_failed
    /\ (Annotated /\ ~op_exists) => FAILED(op_code)

\* C24: in AnnotateWithSourceInformation the existence check sees the file
\* system as the inspection call left it: its answer is whether the file is
\* there after the call, and a file the inspection deleted during the call
\* is found missing and the reason is not NONE.
C24_ExistenceCheckedAfterScan ==
  [][ last_op' = "AnnotateWithSourceInformation" =>
        /\ op_exists' = (op_checked' \in files')
        /\ (op_checked' \in files /\ op_checked' \notin files') =>
             (~op_exists' /\ ret' # NONE) ]_vars

C24_Witness ==
  /\ Annotated /\ attempt = "annotated"
  /\ ~op_exists /\ op_checked \notin files /\ ret = FILE_BLOCKED

Polled == gps_last = "DoGpsPollTask"

\* C26: after every poll task in which Poll() succeeds exactly one next poll
\* is scheduled, 500 ms ahead when the new reading differs significantly from
\* the stored position and 1500 ms ahead otherwise.
C26_NextPollScheduled ==
  [][ (gps_last' = "DoGpsPollTask" /\ poll_ok') =>
        live_tasks' =
          << IF PositionsDifferSiginificantly(position_, poll_new')
               THEN 500 ELSE 1500 >> ]_vars

C26_Witness ==
  /\ Polled
  /\ poll_ok
  /\ poll_on = "started"
  /\ IsValidFix(poll_new)
  /\ position_ = poll_new
  /\ live_tasks = << 500 >>

\* C27: in a successful poll the stored position becomes the new reading and
\* the listeners are notified exactly when the reading differs significantly
\* from the stored position or carries an error code other than NONE;
\* otherwise the stored position stays and nobody is notified.
C27_UpdateIffMovedOrError ==
  [][ (gps_last' = "DoGpsPollTask" /\ poll_ok') =>
        LET changed == \/ PositionsDifferSiginificantly(position_, poll_new')
                       \/ poll_new'.error_code # ERROR_CODE_NONE
        IN /\ notified' = changed
           /\ position_' = IF changed THEN poll_new' ELSE position_ ]_vars

C27_Witness ==
  /\ Polled
  /\ poll_ok
  /\ ~notified
  /\ IsValidFix(poll_new)
  /\ IsValidFix(position_)
  /\ position_ # poll_new
  /\ live_tasks = << 1500 >>

\* C28: every poll task that runs calls Poll() on a GPS object that exists,
\* was started successfully and has not been stopped since.
C28_PollOnStartedGps == Polled => poll_on = "started"

\* C29: at most one poll task that has not been revoked is pending at any
\* moment; a poll task that runs is that one task, and a revoked task that
\* the message loop takes polls nothing and changes nothing of the provider.
C29_AtMostOnePending ==
  /\ [](Len(live_tasks) <= 1)
  /\ [][ /\ gps_last' = "DoGpsPollTask" =>
              (Len(live_tasks) = 1 /\ revoked_tasks' = revoked_tasks)
         /\ gps_last' = "RevokedTask" =>
              /\ gps_' = gps_
              /\ position_' = position_
              /\ live_tasks' = live_tasks
              /\ poll_on' = "none"
              /\ ~notified' ]_vars

C29_Witness ==
  /\ gps_last = "RevokedTask"
  /\ Len(live_tasks) = 1
  /\ revoked_tasks >= 1
  /\ gps_ = "started"

\* C30: every GetPosition call hands out an initialized position, so its
\* assertion holds, in every reachable state of the provider.
C30_GetPositionInitialized ==
  gps_last = "GetPosition" => (IsInitialized(got) /\ ~gps_dcheck_failed)

====
